---- MODULE Spec2Model ----
(***************************************************************************)
(* Model of the LLM-compliance scoring subsystem of mastra-sandbox:        *)
(*   evals/InstructionComplianceMetric.ts   (single-instruction metric)    *)
(*   evals/GuidelinesComplianceMetric.ts    (multi-guideline metric)       *)
(*   agents/reply-eval.ts, agents/reply-eval-rokujou.ts,                   *)
(*   agents/reply-eval-rokujou-sample.ts    (batch evaluators)             *)
(*   review-auto-reply.ts                   (processReviews step)          *)
(*                                                                         *)
(* Numbers are fixed-point integers counted in hundredths: the JSON number *)
(* 7.5 is Num(750), the default score 5 is Num(500), and a normalized      *)
(* score of 0.75 is Num(75).                                               *)
(***************************************************************************)
EXTENDS Integers, Sequences, FiniteSets, TLC

VARIABLES
    call,        \* outcome of model.doGenerate handed to the metric under test
    guidelines,  \* the Guideline[] argument of measureAll
    op,          \* which metric method has been applied to (guidelines, call)
    ret,         \* completion of that method: a returned MetricResult or a throw
    evaluator,   \* which batch script runs: "reply-eval", "rokujou" or "sample"
    columns,     \* the column names the batch script evaluates, as declared
    phase,       \* position of main()/evaluateFile in the batch script
    grp,         \* index of the group of tasks being evaluated
    task,        \* per row of the current group: "queued" | "running" | "settled"
    taskRes,     \* per group and row: settlement of the promise limit() returned
    taskLog,     \* per group and row: what the task did (call outcome, pushes)
    fileScores,  \* per (column, guideline) cell: the score collection
    stats,       \* per cell: the {average, stddev} evaluateFile computed
    written,     \* whether the output file was written
    output,      \* the rows of the output table, in the order they were written
    calls,       \* per group and row: how many model calls the row's task began
    hung,        \* the (group, row) whose model call never returns, if any
    reviews,     \* the reviews parseReviews handed to processReviews
    cursor,      \* the loop variable i of processReviews
    aggregated,  \* the array processReviews accumulates and returns
    sent         \* per extraction call made: the batch it carried and how it ended

vars == <<call, guidelines, op, ret, evaluator, columns, phase, grp, task,
          taskRes, taskLog, fileScores, stats, written, output, calls, hung,
          reviews, cursor, aggregated, sent>>

metricVars == <<call, guidelines, op, ret>>
batchVars == <<evaluator, columns, phase, grp, task, taskRes, taskLog,
               fileScores, stats, written, output, calls, hung>>
workflowVars == <<reviews, cursor, aggregated, sent>>

---------------------------------------------------------------------------
(* Bounds of the model                                                     *)

MaxGuidelines == 2   \* longest guideline list handed to measureAll
MaxResults == 3      \* longest results array in a model response
MaxReasons == 2      \* longest reasons array in a single-instruction response

---------------------------------------------------------------------------
(* JavaScript values                                                       *)

Undef == [t |-> "undefined"]
Null == [t |-> "null"]
NaN == [t |-> "nan"]
Num(n) == [t |-> "num", n |-> n]
Str(s) == [t |-> "str", s |-> s]
Arr(a) == [t |-> "arr", a |-> a]
Obj(f) == [t |-> "obj", f |-> f]

\* A completion of a call: it returns a value or throws an error.
Return(v) == [c |-> "return", v |-> v]
Throw(e) == [c |-> "throw", e |-> e]

\* The record with no field: the object literal {}.
EmptyRecord == [x \in {} |-> Undef]

\* o.name for a value that is neither null nor undefined.
Get(o, name) == IF o.t = "obj" /\ name \in DOMAIN o.f THEN o.f[name] ELSE Undef

\* typeof v === 'number'
IsNumber(v) == v.t \in {"num", "nan"}

\* JavaScript truthiness.
Truthy(v) ==
    CASE v.t \in {"undefined", "null", "nan"} -> FALSE
      [] v.t = "num" -> v.n # 0
      [] v.t = "str" -> v.s # ""
      [] OTHER -> TRUE

\* Sequences over S of length at most n.
SeqUpTo(S, n) == UNION {[1..k -> S] : k \in 0..n}

\* The text JSON.stringify gives for v: a non-empty string that parses back.
Stringify(v) == [t |-> "str", s |-> "json", json |-> v]

\* JSON.parse: a SyntaxError for text that is not JSON.
JSONparse(text) ==
    IF "json" \in DOMAIN text THEN Return(text.json) ELSE Throw("SyntaxError")

\* x / 10 as JavaScript computes it for any operand.
Div10(v) ==
    CASE v.t = "num" -> Num(v.n \div 10)
      [] v.t = "null" -> Num(0)
      [] OTHER -> NaN

---------------------------------------------------------------------------
(* InstructionComplianceMetric                                             *)

MinScore == 0      \* responseSchema.properties.score.minimum
MaxScore == 10     \* responseSchema.properties.score.maximum

\* Mutant of SchemaViolation: the upper bound of the score is not checked.
SchemaViolation_NoMaximum(parsed) ==
    LET score == Get(parsed, "score")
        reasons == Get(parsed, "reasons")
    IN  \/ ~IsNumber(score)
        \/ score.t = "num" /\ score.n < MinScore * 100
        \/ reasons.t # "arr"
        \/ \E i \in DOMAIN reasons.a : reasons.a[i].t # "str"

\* The schema check of measure(): TRUE when the response is rejected.
SchemaViolation(parsed) ==
    LET score == Get(parsed, "score")
        reasons == Get(parsed, "reasons")
    IN  \/ ~IsNumber(score)
        \/ score.t = "num" /\ (score.n < MinScore * 100 \/ score.n > MaxScore * 100)
        \/ reasons.t # "arr"
        \/ \E i \in DOMAIN reasons.a : reasons.a[i].t # "str"

\* The try block of measure(): JSON.parse and the schema check.
MeasureTry(text) ==
    LET p == JSONparse(text)
    IN  IF p.c = "throw" THEN p
        ELSE IF p.v.t \in {"null", "undefined"} THEN Throw("TypeError")
        ELSE IF SchemaViolation(p.v)
             THEN Throw("Response does not conform to schema")
        ELSE Return(p.v)

\* The catch block of measure(): the score-0 fallback.
MeasureFallback(text, err) ==
    [score |-> Num(0), info |-> [raw |-> text, error |-> Str(err)]]

\* Mutant of MeasureNormalized: the score is returned on the 0-10 scale.
MeasureNormalized_NoRescale(parsed) ==
    [score |-> Get(parsed, "score"),
     info |-> [reasons |-> Get(parsed, "reasons")]]

\* The return after the try/catch of measure(): the 0-10 score normalized to 0-1.
MeasureNormalized(parsed) ==
    [score |-> Div10(Get(parsed, "score")),
     info |-> [reasons |-> Get(parsed, "reasons")]]

\* InstructionComplianceMetric.measure for one outcome of model.doGenerate.
Measure(c) ==
    IF c.raises THEN Throw(c.message)   \* doGenerate is awaited outside the try
    ELSE LET text == IF c.text.t \in {"undefined", "null"} THEN Str("") ELSE c.text
             t == MeasureTry(text)
         IN  IF t.c = "throw" THEN Return(MeasureFallback(text, t.e))
             ELSE Return(MeasureNormalized(t.v))

---------------------------------------------------------------------------
(* GuidelinesComplianceMetric                                              *)

DefaultScore == 5   \* the midpoint score given to a guideline without a result

\* One GuidelineResult object.
GuidelineResult(title, score, reasons) ==
    Obj([title |-> title, score |-> score, reasons |-> reasons])

\* Mutant of DefaultResults: the fallback score is 0 instead of the midpoint.
DefaultResults_Zero(gs, reason) ==
    [i \in 1..Len(gs) |->
        GuidelineResult(Str(gs[i].title), Num(0), Arr(<<Str(reason)>>))]

\* guidelines.map(g => ({title: g.title, score: 5, reasons: [reason]}))
DefaultResults(gs, reason) ==
    [i \in 1..Len(gs) |->
        GuidelineResult(Str(gs[i].title), Num(DefaultScore * 100),
                        Arr(<<Str(reason)>>))]

\* The fallback MetricResult of measureAll.
DefaultResult(gs, reason) ==
    [score |-> NaN, info |-> [results |-> Arr(DefaultResults(gs, reason))]]

\* Mutant of Reconcile: the synthesized entries are put before the model's.
Reconcile_Prepend(gs, results) ==
    LET existingTitles == {Get(results[i], "title") : i \in DOMAIN results}
        missing == SelectSeq(gs, LAMBDA g : Str(g.title) \notin existingTitles)
    IN  DefaultResults(missing,
                       "This guideline was missing from LLM response") \o results

\* The reconciliation of measureAll: a score-5 entry is pushed, in guideline
\* order, for every guideline whose title no returned entry carries.
Reconcile(gs, results) ==
    LET existingTitles == {Get(results[i], "title") : i \in DOMAIN results}
        missing == SelectSeq(gs, LAMBDA g : Str(g.title) \notin existingTitles)
    IN  results \o DefaultResults(missing,
                                  "This guideline was missing from LLM response")

\* Mutant of PassThrough: the scores of the entries are rescaled to 0-1.
PassThrough_Rescaled(parsed) ==
    LET rs == parsed.f.results.a
        rescaled(r) == IF r.t = "obj"
                       THEN Obj([r.f EXCEPT !.score = Div10(r.f.score)])
                       ELSE r
    IN  [score |-> NaN,
         info |-> [parsed.f EXCEPT !.results =
                     Arr([i \in DOMAIN rs |-> rescaled(rs[i])])]]

\* The final return of the inner try block: the parsed object is the info.
PassThrough(parsed) == [score |-> NaN, info |-> parsed.f]

\* Mutant of NeedsReconcile: a response one entry short is not reconciled.
NeedsReconcile_OffByOne(gs, results) == Len(results) < Len(gs) - 1

\* The guard of the reconciliation: fewer results than guidelines.
NeedsReconcile(gs, results) == Len(results) < Len(gs)

\* The inner try block of measureAll: parse, empty-results check, reconcile.
ParseTry(gs, text) ==
    LET p == JSONparse(text)
    IN  IF p.c = "throw" THEN p
        ELSE IF p.v.t \in {"null", "undefined"} THEN Throw("TypeError")
        ELSE LET results == Get(p.v, "results")
             IN  IF ~Truthy(results) \/ results.t # "arr" \/ Len(results.a) = 0
                 THEN Return(DefaultResult(gs, "Parsed response had empty results"))
                 ELSE IF NeedsReconcile(gs, results.a)
                 THEN IF \E i \in DOMAIN results.a :
                             results.a[i].t \in {"null", "undefined"}
                      THEN Throw("TypeError")   \* r.title of a null entry
                      ELSE Return(PassThrough(
                               Obj([p.v.f EXCEPT !.results =
                                      Arr(Reconcile(gs, results.a))])))
                 ELSE Return(PassThrough(p.v))

\* The inner catch block of measureAll.
ParseCatch(gs, r) ==
    IF r.c = "throw"
    THEN Return(DefaultResult(gs, "Failed to parse LLM response"))
    ELSE r

\* The outer try block of measureAll: the model call and the empty-text check.
MeasureAllTry(gs, c) ==
    IF c.raises THEN Throw(c.message)
    ELSE IF ~Truthy(c.text)
         THEN Return(DefaultResult(gs, "LLM returned empty response"))
         ELSE ParseCatch(gs, ParseTry(gs, c.text))

\* Mutant of MeasureAllCatch: the failure of the model call is not caught.
MeasureAllCatch_Rethrow(gs, r) == r

\* The outer catch block of measureAll.
MeasureAllCatch(gs, r) ==
    IF r.c = "throw"
    THEN Return(DefaultResult(gs, "LLM call failed: " \o
                    (IF r.e # "" THEN r.e ELSE "Unknown error")))
    ELSE r

\* GuidelinesComplianceMetric.measureAll for one outcome of model.doGenerate.
MeasureAll(gs, c) == MeasureAllCatch(gs, MeasureAllTry(gs, c))

\* The result measure() builds from the first entry of info.results.
FirstResult(first) ==
    IF Truthy(first)
    THEN [score |-> Div10(Get(first, "score")),
          info |-> [reasons |-> Get(first, "reasons")]]
    ELSE [score |-> Num(0), info |-> EmptyRecord]

\* GuidelinesComplianceMetric.measure: one guideline through measureAll.
GuidelinesMeasure(input, c) ==
    LET guideline == [title |-> input, instruction |-> input]
        res == MeasureAll(<<guideline>>, c)
    IN  IF res.c = "throw" THEN res
        ELSE LET results == IF "results" \in DOMAIN res.v.info
                            THEN res.v.info.results ELSE Undef
                 first == IF results.t = "arr" /\ Len(results.a) >= 1
                          THEN results.a[1] ELSE Undef
             IN  Return(FirstResult(first))

---------------------------------------------------------------------------
(* Inputs: guideline lists and outcomes of model.doGenerate                *)

\* The guideline list of length n; titles are distinct.
Guidelines(n) ==
    [i \in 1..n |-> [title |-> "G" \o ToString(i),
                     instruction |-> "I" \o ToString(i)]]

GuidelineLists == {Guidelines(n) : n \in 1..MaxGuidelines}

\* An object holding the given properties; Undef stands for an absent one.
MakeObj(score, reasons, results, extra) ==
    LET val(n) == CASE n = "score" -> score
                    [] n = "reasons" -> reasons
                    [] n = "results" -> results
                    [] OTHER -> extra
        names == {n \in {"score", "reasons", "results", "extra"} :
                     val(n).t # "undefined"}
    IN  Obj([n \in names |-> val(n)])

ScoreValues ==
    {Undef, Null, Str("7"), Num(-100), Num(0), Num(700), Num(750), Num(1000),
     Num(1100)}

ReasonItems == {Str("r1"), Str("r2"), Num(100)}

ReasonsValues ==
    {Undef, Null, Str("r1")} \cup {Arr(a) : a \in SeqUpTo(ReasonItems, MaxReasons)}

\* Responses in the single-instruction shape, well-formed or not.
SingleObjects ==
    {MakeObj(s, r, Undef, x) :
        s \in ScoreValues, r \in ReasonsValues, x \in {Undef, Str("note")}}

ItemTitles == {"G" \o ToString(i) : i \in 1..MaxGuidelines} \cup {"X"}

ItemScores == {Num(700), Num(1100), Str("high")}

\* Entries of a results array: null, or an object with a title and a score.
Items ==
    {Null} \cup {GuidelineResult(Str(t), s, Arr(<<Str("r1")>>)) :
                    t \in ItemTitles, s \in ItemScores}

\* Responses in the multi-guideline shape, well-formed or not.
MultiObjects ==
    {MakeObj(Undef, Undef, r, Undef) :
        r \in {Null, Str("none")} \cup {Arr(a) : a \in SeqUpTo(Items, MaxResults)}}

JsonValues ==
    {Null, Num(700), Str("ok"), Arr(<<>>)} \cup SingleObjects \cup MultiObjects

\* res.text: absent, empty, text that is not JSON, or the text of a JSON value.
Texts == {Undef, Str(""), Str("Score: 7")} \cup {Stringify(v) : v \in JsonValues}

\* Outcomes of model.doGenerate: it rejects with an Error or resolves.
Calls ==
    {[raises |-> TRUE, message |-> m] : m \in {"", "timeout"}}
    \cup {[raises |-> FALSE, text |-> t] : t \in Texts}

---------------------------------------------------------------------------
(* The metrics applied to one outcome                                      *)

NoRet == [c |-> "none"]

NoHang == <<0, 0>>   \* every model call of the run settles

BatchIdle ==
    /\ evaluator = "none"
    /\ phase = "idle"
    /\ grp = 0
    /\ task = <<>>
    /\ taskRes = <<>>
    /\ fileScores = <<>>
    /\ written = FALSE
    /\ columns = <<>>
    /\ taskLog = <<>>
    /\ stats = <<>>
    /\ output = <<>>
    /\ calls = <<>>
    /\ hung = NoHang

WorkflowIdle ==
    /\ reviews = <<>>
    /\ cursor = 0
    /\ aggregated = <<>>
    /\ sent = <<>>

InitMetric ==
    /\ call \in Calls
    /\ guidelines \in GuidelineLists
    /\ op = "none"
    /\ ret = NoRet
    /\ BatchIdle
    /\ WorkflowIdle

\* new InstructionComplianceMetric(model).measure(instruction, text)
DoMeasure ==
    /\ op = "none"
    /\ op' = "measure"
    /\ ret' = Measure(call)
    /\ UNCHANGED <<call, guidelines, batchVars, workflowVars>>

\* new GuidelinesComplianceMetric(model).measureAll(guidelines, text)
DoMeasureAll ==
    /\ op = "none"
    /\ op' = "measureAll"
    /\ ret' = MeasureAll(guidelines, call)
    /\ UNCHANGED <<call, guidelines, batchVars, workflowVars>>

\* new GuidelinesComplianceMetric(model).measure(instruction, text)
DoGuidelinesMeasure ==
    /\ op = "none"
    /\ op' = "gmeasure"
    /\ ret' = GuidelinesMeasure(guidelines[1].instruction, call)
    /\ UNCHANGED <<call, guidelines, batchVars, workflowVars>>

NextMetric == DoMeasure \/ DoMeasureAll \/ DoGuidelinesMeasure

SpecMetric == InitMetric /\ [][NextMetric]_vars

---------------------------------------------------------------------------
(* Properties of InstructionComplianceMetric.measure                       *)

\* The text measure() works on: res.text ?? ''.
RawText == IF call.text.t \in {"undefined", "null"} THEN Str("") ELSE call.text

\* The response text is JSON.
IsJson == ~call.raises /\ JSONparse(RawText).c = "return"

\* The value the response text parses to (for a JSON text).
Parsed == JSONparse(RawText).v

\* The response's score is a number within [0,10].
ScoreInRange(v) ==
    /\ Get(v, "score").t = "num"
    /\ Get(v, "score").n >= 0
    /\ Get(v, "score").n <= 1000

\* The response's reasons is an array whose every element is a string.
ReasonsAreStrings(v) ==
    /\ Get(v, "reasons").t = "arr"
    /\ \A i \in DOMAIN Get(v, "reasons").a : Get(v, "reasons").a[i].t = "str"

\* The response is a JSON object with a score in [0,10] and string reasons.
ValidSingle == IsJson /\ ScoreInRange(Parsed) /\ ReasonsAreStrings(Parsed)

\* C1: measure() never throws or rejects: for every outcome of the model call
\* (it raises, returns empty or absent text, text that is not JSON, JSON of the
\* wrong shape, or a valid object) it returns a result with a defined score.
C1_MeasureNeverThrows ==
    op = "measure" => ret.c = "return" /\ ret.v.score.t = "num"

\* C2: for a response that is a JSON object with a numeric score r in [0,10]
\* and reasons an array of strings, measure() returns score r/10, within
\* [0,1], and info.reasons equal to the returned reasons in the same order.
C2_NormalizationLaw ==
    (op = "measure" /\ ValidSingle) =>
        /\ ret.c = "return"
        /\ ret.v.score.t = "num"
        /\ ret.v.score.n * 10 = Get(Parsed, "score").n
        /\ ret.v.score.n >= 0 /\ ret.v.score.n <= 100
        /\ DOMAIN ret.v.info = {"reasons"}
        /\ ret.v.info.reasons = Get(Parsed, "reasons")

C2_Witness ==
    /\ op = "measure" /\ ValidSingle
    /\ Get(Parsed, "score") = Num(750)
    /\ Get(Parsed, "reasons") = Arr(<<Str("r2"), Str("r1")>>)
    /\ ret.v.score = Num(75)

\* C3: measure() returns the fallback result (score 0, info carrying the raw
\* response text and an error message, no reasons) exactly when the text does
\* not parse as JSON, or its score is not a number within [0,10], or its
\* reasons is not an array of strings; otherwise the normalized score.
C3_FallbackExactlyOnViolation ==
    (op = "measure" /\ ~call.raises) =>
        /\ ret.c = "return"
        /\ IF ValidSingle
           THEN /\ "reasons" \in DOMAIN ret.v.info
                /\ "error" \notin DOMAIN ret.v.info
                /\ ret.v.score.n * 10 = Get(Parsed, "score").n
           ELSE /\ ret.v.score = Num(0)
                /\ DOMAIN ret.v.info = {"raw", "error"}
                /\ ret.v.info.raw = RawText
                /\ ret.v.info.error.t = "str" /\ ret.v.info.error.s # ""

C3_Witness ==
    /\ op = "measure" /\ IsJson
    /\ Get(Parsed, "score") = Num(1100)
    /\ ReasonsAreStrings(Parsed)
    /\ ret.v.score = Num(0)
    /\ ret.v.info.error = Str("Response does not conform to schema")

---------------------------------------------------------------------------
(* Properties of GuidelinesComplianceMetric                                *)

\* info.results of the returned MetricResult.
OutResults == ret.v.info.results.a

\* The results property of the parsed response (for a JSON text).
RespResults == Get(Parsed, "results")

\* The titles of the requested guidelines, as JavaScript strings.
RequestedTitles == {Str(guidelines[i].title) : i \in DOMAIN guidelines}

\* The positions of a results sequence that carry the title t.
Positions(results, t) == {j \in DOMAIN results : Get(results[j], "title") = t}

\* One entry per guideline, in guideline order, score 5, the single given reason.
AllDefault(results, reason) ==
    /\ Len(results) = Len(guidelines)
    /\ \A i \in DOMAIN guidelines :
          results[i] = GuidelineResult(Str(guidelines[i].title), Num(500),
                                       Arr(<<Str(reason)>>))

\* The failure conditions of the policy table.
CallFailed == call.raises
EmptyResponse == ~call.raises /\ call.text \in {Undef, Str("")}
Unparseable == ~call.raises /\ ~EmptyResponse /\ ~IsJson
NoResults == IsJson /\ (RespResults.t # "arr" \/ Len(RespResults.a) = 0)

\* C4: measureAll never throws or rejects and its outer score is NaN in every
\* outcome: call raises, empty text, unparseable text, missing or empty
\* results, partial results, complete results.
C4_MeasureAllTotalAndNaN ==
    op = "measureAll" => ret.c = "return" /\ ret.v.score = NaN

C4_Witness ==
    /\ op = "measureAll" /\ call.raises
    /\ ret.c = "return" /\ ret.v.score = NaN

\* C5: when the call raises, returns empty text, text that is not JSON, or a
\* value whose results is missing, not an array or empty, info.results has one
\* entry per guideline in declaration order, each with the guideline's title,
\* score 5 and a single reason naming the failure condition.
C5_FailureGivesDefaults ==
    op = "measureAll" =>
        /\ CallFailed =>
              AllDefault(OutResults, "LLM call failed: " \o
                  (IF call.message = "" THEN "Unknown error" ELSE call.message))
        /\ EmptyResponse => AllDefault(OutResults, "LLM returned empty response")
        /\ Unparseable => AllDefault(OutResults, "Failed to parse LLM response")
        /\ NoResults =>
              \/ AllDefault(OutResults, "Parsed response had empty results")
              \/ AllDefault(OutResults, "Failed to parse LLM response")

C5_Witness ==
    /\ op = "measureAll" /\ Len(guidelines) = 2
    /\ NoResults /\ RespResults = Arr(<<>>)
    /\ OutResults[2] = GuidelineResult(Str("G2"), Num(500),
                          Arr(<<Str("Parsed response had empty results")>>))

\* The response's results are k entries, 1 <= k <= n, with distinct titles
\* drawn from the guideline titles.
DistinctRequested ==
    /\ IsJson /\ RespResults.t = "arr"
    /\ Len(RespResults.a) >= 1 /\ Len(RespResults.a) <= Len(guidelines)
    /\ \A j \in DOMAIN RespResults.a :
          Get(RespResults.a[j], "title") \in RequestedTitles
    /\ \A j, k \in DOMAIN RespResults.a :
          j # k => Get(RespResults.a[j], "title") # Get(RespResults.a[k], "title")

\* C6: for n guidelines with distinct titles and a response of k results,
\* 1 <= k <= n, with distinct titles drawn from the guideline titles,
\* info.results has length n and every guideline title appears exactly once.
C6_ReconciliationCompleteness ==
    (op = "measureAll" /\ DistinctRequested) =>
        /\ Len(OutResults) = Len(guidelines)
        /\ \A t \in RequestedTitles : Cardinality(Positions(OutResults, t)) = 1

C6_Witness ==
    /\ op = "measureAll" /\ DistinctRequested
    /\ Len(guidelines) = 2 /\ Len(RespResults.a) = 1
    /\ Get(RespResults.a[1], "title") = Str("G2")
    /\ Len(OutResults) = 2
    /\ Get(OutResults[2], "title") = Str("G1")

\* C7: for every model outcome, info.results contains exactly one entry for
\* each requested guideline title and no other entry, including for responses
\* that repeat a title, name a title that was not requested, or have at least
\* as many entries as there are guidelines.
C7_ExactlyOnePerGuideline ==
    op = "measureAll" =>
        /\ \A t \in RequestedTitles : Cardinality(Positions(OutResults, t)) = 1
        /\ \A j \in DOMAIN OutResults :
              Get(OutResults[j], "title") \in RequestedTitles

\* The response's results hold one entry per requested guideline.
Complete ==
    /\ IsJson /\ RespResults.t = "arr"
    /\ Len(RespResults.a) = Len(guidelines)
    /\ \A t \in RequestedTitles : Cardinality(Positions(RespResults.a, t)) = 1

\* C8: when the results array has one entry per requested guideline,
\* info.results equals the model's results entry for entry and in the same
\* order, scores left on the 0-10 scale: nothing added, removed, reordered or
\* rescaled.
C8_CompletePassThrough ==
    (op = "measureAll" /\ Complete) => OutResults = RespResults.a

C8_Witness ==
    /\ op = "measureAll" /\ Complete
    /\ Len(guidelines) = 2
    /\ RespResults.a[1] = GuidelineResult(Str("G2"), Num(700), Arr(<<Str("r1")>>))
    /\ OutResults[1] = GuidelineResult(Str("G2"), Num(700), Arr(<<Str("r1")>>))
    /\ Get(OutResults[2], "title") = Str("G1")

\* C9: GuidelinesComplianceMetric.measure returns the first result's score
\* divided by 10, and the returned score lies in [0,1] for every model
\* response.
C9_GuidelinesMeasureInUnitRange ==
    op = "gmeasure" =>
        /\ ret.c = "return"
        /\ ret.v.score.t = "num"
        /\ ret.v.score.n >= 0 /\ ret.v.score.n <= 100

\* C19: every entry of info.results returned by measureAll has a title equal
\* to one requested guideline's title and a score that is a number within
\* [0,10], whatever the model returned; an item that violates this never
\* reaches the caller as returned.
C19_EntriesAreRequestedAndInRange ==
    op = "measureAll" =>
        \A j \in DOMAIN OutResults :
            /\ Get(OutResults[j], "title") \in RequestedTitles
            /\ ScoreInRange(OutResults[j])

\* The response's results are fewer than the guidelines (and not empty).
Partial ==
    /\ IsJson /\ RespResults.t = "arr"
    /\ Len(RespResults.a) >= 1 /\ Len(RespResults.a) < Len(guidelines)

\* The indexes of the guidelines whose title no entry of the response carries.
AbsentGuidelines ==
    {i \in DOMAIN guidelines : Positions(RespResults.a, Str(guidelines[i].title)) = {}}

\* info.results is the model's entries, unchanged and in the model's order,
\* followed by one score-5 entry marked as missing per absent guideline, the
\* synthesized entries in guideline declaration order.
KeptThenAppended ==
    LET k == Len(RespResults.a)
    IN  /\ Len(OutResults) = k + Cardinality(AbsentGuidelines)
        /\ \A j \in 1..k : OutResults[j] = RespResults.a[j]
        /\ \A i \in AbsentGuidelines :
              \E j \in (k + 1)..Len(OutResults) :
                  /\ OutResults[j] =
                        GuidelineResult(Str(guidelines[i].title), Num(500),
                            Arr(<<Str("This guideline was missing from LLM response")>>))
                  /\ j = k + Cardinality({h \in AbsentGuidelines : h <= i})

C21_GuidelinesMeasureFailsToZero ==
    (op = "gmeasure" /\ (CallFailed \/ EmptyResponse \/ Unparseable \/ NoResults)) =>
        /\ ret.c = "return"
        /\ ret.v.score = Num(0)
        /\ ret.v.info # EmptyRecord

\* C22: a single-instruction response object that carries any property besides
\* score and reasons is a schema violation: measure() returns the fallback
\* result for it, not a normalized score.
C22_AdditionalPropertyIsViolation ==
    (/\ op = "measure" /\ IsJson /\ Parsed.t = "obj"
     /\ DOMAIN Parsed.f \ {"score", "reasons"} # {}) =>
        /\ ret.c = "return"
        /\ ret.v.score = Num(0)
        /\ "error" \in DOMAIN ret.v.info

---------------------------------------------------------------------------
(* Batch evaluators: agents/reply-eval.ts, agents/reply-eval-rokujou.ts    *)
(* and agents/reply-eval-rokujou-sample.ts                                 *)

MaxRows == 3       \* most rows the CSV file holds
Concurrency == 2   \* the pLimit(...) argument, scaled to the rows of the model

\* const guidelines: the declared guideline list (two of its entries).
BatchGuidelines == Guidelines(2)

\* The titles of the declared guidelines, as JavaScript strings.
BatchTitles == {Str(BatchGuidelines[i].title) : i \in DOMAIN BatchGuidelines}

\* const targetColumns (rokujou, sample), scaled down; reply-eval.ts reads the
\* one column 'reply' of its one file. The groups of rokujou are the (column,
\* guideline) pairs, so one column gives it as many groups as two columns
\* give sample, whose groups are the columns.
TargetColumns(e) ==
    CASE e = "reply-eval" -> <<"reply">>
      [] e = "rokujou" -> <<"A">>
      [] OTHER -> <<"A", "B">>

\* The (column, guideline) cells of the score table, columns outermost.
Cells(cols) ==
    LET ng == Len(BatchGuidelines)
    IN  [k \in 1..(Len(cols) * ng) |->
            [col |-> cols[((k - 1) \div ng) + 1],
             title |-> BatchGuidelines[((k - 1) % ng) + 1].title]]

\* The index of the cell (col, title).
CellIndex(cols, col, title) ==
    CHOOSE k \in DOMAIN Cells(cols) :
        Cells(cols)[k] = [col |-> col, title |-> title]

\* The groups of tasks evaluateFile awaits one after the other: one per
\* (column, guideline) pair in the nested for loops of reply-eval and rokujou,
\* one per column in sample.
Groups(e) ==
    IF e = "sample"
    THEN [k \in DOMAIN columns |-> [col |-> columns[k]]]
    ELSE Cells(columns)

\* What the model answers for row r when its call does not fail: rows vary
\* between well-formed scores (0 among them) and text that is not JSON.
RowResponse(r) ==
    IF r % 2 = 0
    THEN [raises |-> FALSE, text |-> Str("Score: 7")]
    ELSE [raises |-> FALSE,
          text |-> Stringify(MakeObj(Num(((3 * (r - 1)) % 11) * 100),
                                     Arr(<<Str("r1")>>), Undef, Undef))]

\* What the model answers to the multi-guideline prompt for row r: a complete
\* response, a partial one, one with an unrequested title, a text score and a
\* repeated title, and one with a null entry.
RowResponseAll(r) ==
    LET item(t, s) == GuidelineResult(Str(t), s, Arr(<<Str("r1")>>))
        results ==
            CASE r % 4 = 1 -> <<item("G1", Num(500)), item("G2", Num(700))>>
              [] r % 4 = 2 -> <<item("G2", Num(1100))>>
              [] r % 4 = 3 -> <<item("X", Num(700)), item("G1", Str("high")),
                                item("G1", Num(300)), item("G1", Num(900)),
                                item("constructor", Num(700)),
                                item("G2", Num(800))>>
              [] OTHER -> <<item("G1", Num(700)), Null, item("G2", Num(700))>>
    IN  [raises |-> FALSE,
         text |-> Stringify(MakeObj(Undef, Undef, Arr(results), Undef))]

\* The outcomes of the model call of row r: it fails or it answers.
RowCalls(r) == {[raises |-> TRUE, message |-> "timeout"], RowResponse(r)}

RowCallsAll(r) == {[raises |-> TRUE, message |-> "timeout"], RowResponseAll(r)}

\* Settlements of the promise limit(...) returns for a row.
Pending == [k |-> "pending"]
Fulfilled(v) == [k |-> "fulfilled", v |-> v]
Rejected == [k |-> "rejected"]

\* The task of reply-eval-rokujou.ts: measure() in a try/catch that yields null.
TaskRokujou(c) ==
    LET r == Measure(c)
    IN  IF r.c = "throw" THEN Return(Null) ELSE Return(r.v.score)

\* The task of reply-eval.ts: measure() with no try/catch around it.
TaskReplyEval(c) ==
    LET r == Measure(c)
    IN  IF r.c = "throw" THEN r ELSE Return(r.v.score)

\* The property names scores[col], an object literal, inherits from
\* Object.prototype: looked up by a title they yield a truthy value that has
\* no push method.
InheritedKeys ==
    {"constructor", "toString", "toLocaleString", "valueOf", "hasOwnProperty",
     "isPrototypeOf", "propertyIsEnumerable", "__proto__"}

\* The forEach of the sample task: the (title, score / 10) pairs it pushes.
\* An entry that is null, or one with a numeric score whose title names an
\* inherited property, ends the loop with a TypeError, which the task's
\* catch swallows; what was pushed before it stays.
SamplePushes(results) ==
    LET bad == {i \in DOMAIN results :
                  \/ results[i].t \in {"null", "undefined"}
                  \/ /\ Get(results[i], "title").t = "str"
                     /\ Get(results[i], "title").s \in InheritedKeys
                     /\ IsNumber(Get(results[i], "score"))}
        stop == IF bad = {} THEN Len(results)
                ELSE (CHOOSE i \in bad : \A j \in bad : i <= j) - 1
        kept == SelectSeq(SubSeq(results, 1, stop),
                          LAMBDA x : /\ Get(x, "title") \in BatchTitles
                                     /\ IsNumber(Get(x, "score")))
    IN  [i \in DOMAIN kept |->
            [title |-> Get(kept[i], "title").s,
             score |-> Div10(Get(kept[i], "score"))]]

\* The task of reply-eval-rokujou-sample.ts: measureAll() in a try/catch; the
\* task pushes into the cells of its column and returns undefined.
TaskSample(c) ==
    LET r == MeasureAll(BatchGuidelines, c)
    IN  IF r.c = "throw" \/ "results" \notin DOMAIN r.v.info
           \/ r.v.info.results.t # "arr"
        THEN <<>>
        ELSE SamplePushes(r.v.info.results.a)

RunTask(e, c) ==
    CASE e = "rokujou" -> TaskRokujou(c)
      [] e = "sample" -> Return(Undef)
      [] OTHER -> TaskReplyEval(c)

\* The model-call outcomes of row r under evaluator e.
TaskCalls(e, r) == IF e = "sample" THEN RowCallsAll(r) ELSE RowCalls(r)

\* Mutant of StartTasks: every enqueued task starts at once.
StartTasks_Unlimited(n) == [r \in 1..n |-> "running"]

\* Mutant of StartTasks: the limiter starts the tasks enqueued last.
StartTasks_Lifo(n) ==
    [r \in 1..n |-> IF r > n - Concurrency THEN "running" ELSE "queued"]

\* p-limit: the first Concurrency of n enqueued tasks start at once.
StartTasks(n) ==
    [r \in 1..n |-> IF r <= Concurrency THEN "running" ELSE "queued"]

\* p-limit: when task r settles, the longest-waiting queued task starts.
SettleAndAdmit(tasks, r) ==
    LET queued == {q \in DOMAIN tasks : tasks[q] = "queued"}
        head == IF queued = {} THEN 0
                ELSE CHOOSE q \in queued : \A o \in queued : q <= o
    IN  [q \in DOMAIN tasks |->
            IF q = r THEN "settled"
            ELSE IF q = head THEN "running"
            ELSE tasks[q]]

\* What evaluateFile stores for a group once Promise.all has resolved:
\* rokujou filters the nulls out, reply-eval stores every value.
Collect(e, settled) ==
    LET values == [r \in DOMAIN settled |-> settled[r].v]
    IN  IF e = "rokujou"
        THEN SelectSeq(values, LAMBDA v : v.t # "null")
        ELSE values

---------------------------------------------------------------------------
(* Aggregation and serialization                                           *)

MaxScores == 3   \* longest score collection handed to the aggregation alone

\* Number.POSITIVE_INFINITY
Infinity == [t |-> "inf"]

\* a / b for numbers a >= 0 and b >= 0, as JavaScript computes it.
JsDiv(a, b) ==
    IF b # 0 THEN Num(a \div b)
    ELSE IF a = 0 THEN NaN ELSE Infinity

\* Math.sqrt for a value that is not negative.
MathSqrt(v) ==
    IF v.t = "num"
    THEN Num(CHOOSE r \in 0..1000 : r * r <= v.n /\ v.n < (r + 1) * (r + 1))
    ELSE v

\* scores.reduce((a, b) => a + b, 0)
RECURSIVE Sum(_)
Sum(scores) ==
    IF scores = <<>> THEN 0 ELSE Head(scores).n + Sum(Tail(scores))

\* scores.reduce((a, b) => a + Math.pow(b - average, 2), 0) for a number average
RECURSIVE SumSq(_, _)
SumSq(scores, average) ==
    IF scores = <<>> THEN 0
    ELSE (Head(scores).n - average) * (Head(scores).n - average)
         + SumSq(Tail(scores), average)

\* Mutant of Average: an empty collection averages to 0.
Average_ZeroWhenEmpty(e, scores) ==
    IF Len(scores) > 0 THEN JsDiv(Sum(scores), Len(scores)) ELSE Num(0)

\* const average: sum / count, guarded by count > 0 in rokujou and sample.
Average(e, scores) ==
    IF e = "reply-eval" \/ Len(scores) > 0
    THEN JsDiv(Sum(scores), Len(scores))
    ELSE NaN

\* Mutant of Variance: the squared deviations are divided by count - 1.
Variance_Sample(e, scores, average) ==
    IF Len(scores) > 0
    THEN JsDiv(SumSq(scores, average.n), Len(scores) - 1)
    ELSE NaN

\* const variance: the squared deviations over count, guarded by count > 0 in
\* rokujou and sample; with the NaN average of an empty collection the
\* unguarded form of reply-eval divides 0 by 0.
Variance(e, scores, average) ==
    IF Len(scores) > 0
    THEN JsDiv(SumSq(scores, average.n), Len(scores))
    ELSE IF e = "reply-eval" THEN JsDiv(0, 0) ELSE NaN

\* The { average, stddev } of one score collection.
StatsOf(e, scores) ==
    LET average == Average(e, scores)
    IN  [average |-> average,
         stddev |-> MathSqrt(Variance(e, scores, average))]

\* The stats object of evaluateFile: one entry per cell.
ComputeStats(e, scores) == [k \in DOMAIN scores |-> StatsOf(e, scores[k])]

\* Property keys that are array indexes, and the index each one spells.
IndexKeys == {ToString(i) : i \in 0..9}
KeyIndex(key) == CHOOSE i \in 0..9 : ToString(i) = key

\* The order Object.entries enumerates the own keys of a plain object whose
\* properties were created in the order of keys: array-index keys first, in
\* ascending numeric order, then the other keys in creation order.
OwnKeys(keys) ==
    SortSeq(SelectSeq(keys, LAMBDA k : k \in IndexKeys),
            LAMBDA a, b : KeyIndex(a) < KeyIndex(b))
    \o SelectSeq(keys, LAMBDA k : k \notin IndexKeys)

\* The titles of the guideline list, in declaration order.
TitlesOf(gs) == [i \in DOMAIN gs |-> gs[i].title]

\* Number.prototype.toFixed(3): the decimal text of a number (the model's
\* numbers are hundredths), 'NaN' for NaN.
ToFixed3(v) ==
    IF v.t = "num" THEN [t |-> "str", s |-> "decimal", milli |-> v.n * 10]
    ELSE Str("NaN")

\* The cells of the output table in the order the script writes them:
\* rokujou enumerates Object.entries of the stats objects, reply-eval and
\* sample loop over the declared arrays.
WriteOrder(e, cols) ==
    LET cs == IF e = "rokujou" THEN OwnKeys(cols) ELSE cols
        ts == IF e = "rokujou" THEN OwnKeys(TitlesOf(BatchGuidelines))
              ELSE TitlesOf(BatchGuidelines)
        nt == Len(ts)
    IN  [k \in 1..(Len(cs) * nt) |->
            [col |-> cs[((k - 1) \div nt) + 1], title |-> ts[((k - 1) % nt) + 1]]]

\* The text written to the output file, cell by cell.
Serialize(e, cols, st) ==
    LET order == WriteOrder(e, cols)
    IN  [k \in DOMAIN order |->
            LET s == st[CellIndex(cols, order[k].col, order[k].title)]
            IN  [col |-> order[k].col, title |-> order[k].title,
                 average |-> ToFixed3(s.average),
                 stddev |-> ToFixed3(s.stddev)]]

---------------------------------------------------------------------------
(* The batch run                                                           *)

\* The log entry of a task that has not settled.
NoLog == [raised |-> FALSE, pushes |-> <<>>, with |-> {}]

\* The log entry of a settled task: whether its model call raised, what it
\* pushed into the score table and, if it pushed, the tasks in flight then.
LogEntry(c, pushes, running) ==
    [raised |-> c.raises, pushes |-> pushes,
     with |-> IF pushes = <<>> THEN {} ELSE running]

\* Mutant of TaskPushes: the tasks of reply-eval and rokujou push their score
\* into the cell themselves, as the tasks of sample do.
TaskPushes_Always(e, g, c) ==
    IF e = "sample" THEN TaskSample(c)
    ELSE IF Measure(c).c = "return"
         THEN <<[title |-> Cells(columns)[g].title, score |-> Measure(c).v.score]>>
         ELSE <<>>

\* What the task of group g pushes into the score table while it runs: the
\* tasks of sample push, those of reply-eval and rokujou only return a value.
TaskPushes(e, g, c) == IF e = "sample" THEN TaskSample(c) ELSE <<>>

\* Mutant of PushAll: a task assigns its scores to the cell instead of
\* appending them, so the task that completes last decides the collection.
PushAll_Overwrite(scores, col, pushes) ==
    [k \in DOMAIN scores |->
        IF Cells(columns)[k].col = col
        THEN LET mine == SelectSeq(pushes,
                            LAMBDA p : p.title = Cells(columns)[k].title)
             IN  IF mine = <<>> THEN scores[k]
                 ELSE [i \in DOMAIN mine |-> mine[i].score]
        ELSE scores[k]]

\* scores[col][title].push(score) for every push, in order.
PushAll(scores, col, pushes) ==
    [k \in DOMAIN scores |->
        IF Cells(columns)[k].col = col
        THEN LET mine == SelectSeq(pushes,
                            LAMBDA p : p.title = Cells(columns)[k].title)
             IN  scores[k] \o [i \in DOMAIN mine |-> mine[i].score]
        ELSE scores[k]]

\* fileScores[col][g.title] = (the values Promise.all resolved with): the
\* assignment reply-eval and rokujou make per group; sample makes none.
StoreGroup(e, scores, g, settled) ==
    IF e = "sample" THEN scores
    ELSE [scores EXCEPT ![g] = Collect(e, settled)]

MetricIdle ==
    /\ call = [raises |-> FALSE, text |-> Undef]
    /\ guidelines = BatchGuidelines
    /\ op = "none"
    /\ ret = NoRet

BatchStart ==
    /\ evaluator \in {"reply-eval", "rokujou", "sample"}
    /\ columns = TargetColumns(evaluator)
    /\ phase = "start"
    /\ grp = 0
    /\ task = <<>>
    /\ taskRes = <<>>
    /\ taskLog = <<>>
    /\ fileScores = <<>>
    /\ stats = <<>>
    /\ written = FALSE
    /\ output = <<>>
    /\ calls = <<>>
    /\ MetricIdle
    /\ WorkflowIdle

InitBatch ==
    /\ BatchStart
    /\ hung = NoHang

\* The number of model calls each row of group g has begun, after the group's
\* tasks went from `before` to `after`: the limiter runs a task's function,
\* and with it the one call the function makes, when it admits the task.
CountStarts(count, g, before, after) ==
    [count EXCEPT ![g] =
        [r \in DOMAIN after |->
            @[r] + IF /\ after[r] = "running"
                      /\ (r \notin DOMAIN before \/ before[r] # "running")
                   THEN 1 ELSE 0]]

\* readCsv resolves with n rows: the score table is initialised and the tasks
\* of the first group are handed to the limiter.
ReadCsv ==
    /\ phase = "start"
    /\ \E n \in 0..MaxRows :
          /\ task' = StartTasks(n)
          /\ taskRes' = [g \in DOMAIN Groups(evaluator) |-> [r \in 1..n |-> Pending]]
          /\ taskLog' = [g \in DOMAIN Groups(evaluator) |-> [r \in 1..n |-> NoLog]]
    /\ calls' = CountStarts([g \in DOMAIN taskRes' |->
                                [r \in DOMAIN task' |-> 0]], 1, <<>>, task')
    /\ fileScores' = [k \in DOMAIN Cells(columns) |-> <<>>]
    /\ grp' = 1
    /\ phase' = "running"
    /\ UNCHANGED <<evaluator, columns, stats, written, output, hung,
                   metricVars, workflowVars>>

\* Mutant of ReadCsvFails: the unreadable file is taken for an empty one and
\* an output table without scores is written.
ReadCsvFails_Skipped ==
    /\ phase = "start"
    /\ phase' = "done"
    /\ fileScores' = [k \in DOMAIN Cells(columns) |-> <<>>]
    /\ stats' = ComputeStats(evaluator, fileScores')
    /\ output' = Serialize(evaluator, columns, stats')
    /\ written' = TRUE
    /\ UNCHANGED <<evaluator, columns, grp, task, taskRes, taskLog, calls,
                   hung, metricVars, workflowVars>>

\* readCsv does not resolve: the parser's error rejects it, evaluateFile
\* rejects and main's catch ends the run (rokujou, reply-eval: exit(1);
\* sample: logged), or the read stream's error, which has no listener, ends
\* the process as an uncaught exception.
ReadCsvFails ==
    /\ phase = "start"
    /\ phase' = "exited"
    /\ UNCHANGED <<evaluator, columns, grp, task, taskRes, taskLog, fileScores,
                   stats, written, output, calls, hung, metricVars,
                   workflowVars>>

\* The model call of row r settles and the task returns a value; a task of
\* sample has pushed its scores before it returns.
TaskFulfils(r) ==
    /\ phase = "running"
    /\ r \in DOMAIN task /\ task[r] = "running"
    /\ hung # <<grp, r>>
    /\ \E c \in TaskCalls(evaluator, r) :
          LET res == RunTask(evaluator, c)
              pushes == TaskPushes(evaluator, grp, c)
              running == {q \in DOMAIN task : q # r /\ task[q] = "running"}
          IN  /\ res.c = "return"
              /\ taskRes' = [taskRes EXCEPT ![grp][r] = Fulfilled(res.v)]
              /\ taskLog' = [taskLog EXCEPT ![grp][r] =
                                LogEntry(c, pushes, running)]
              /\ fileScores' = IF pushes = <<>> THEN fileScores
                               ELSE PushAll(fileScores,
                                            Groups(evaluator)[grp].col, pushes)
    /\ task' = SettleAndAdmit(task, r)
    /\ calls' = CountStarts(calls, grp, task, task')
    /\ UNCHANGED <<evaluator, columns, phase, grp, stats, written, output,
                   hung, metricVars, workflowVars>>

\* The model call of row r settles and the task throws: Promise.all rejects,
\* evaluateFile rejects and main().catch exits the process.
TaskRejects(r) ==
    /\ phase = "running"
    /\ r \in DOMAIN task /\ task[r] = "running"
    /\ hung # <<grp, r>>
    /\ \E c \in TaskCalls(evaluator, r) :
          /\ RunTask(evaluator, c).c = "throw"
          /\ taskLog' = [taskLog EXCEPT ![grp][r] =
                            LogEntry(c, <<>>, {})]
    /\ taskRes' = [taskRes EXCEPT ![grp][r] = Rejected]
    /\ task' = SettleAndAdmit(task, r)
    /\ calls' = CountStarts(calls, grp, task, task')
    /\ phase' = "exited"
    /\ UNCHANGED <<evaluator, columns, grp, fileScores, stats, written, output,
                   hung, metricVars, workflowVars>>

AllSettled == \A r \in DOMAIN task : task[r] = "settled"

\* Mutant of GroupDone: the loop goes on to the next group once the limiter
\* has started the last task of this one, without awaiting Promise.all.
GroupDone_NoAwait ==
    /\ phase = "running"
    /\ \A r \in DOMAIN task : task[r] # "queued"
    /\ grp < Len(Groups(evaluator))
    /\ fileScores' = StoreGroup(evaluator, fileScores, grp,
                                SelectSeq(taskRes[grp],
                                          LAMBDA x : x.k = "fulfilled"))
    /\ grp' = grp + 1
    /\ task' = StartTasks(Len(task))
    /\ calls' = CountStarts(calls, grp', <<>>, task')
    /\ UNCHANGED <<evaluator, columns, phase, taskRes, taskLog, stats, written,
                   output, hung, metricVars, workflowVars>>

\* Promise.all resolves for a group that is not the last: its scores are
\* stored and the tasks of the next group are handed to the limiter.
GroupDone ==
    /\ phase = "running" /\ AllSettled
    /\ grp < Len(Groups(evaluator))
    /\ fileScores' = StoreGroup(evaluator, fileScores, grp, taskRes[grp])
    /\ grp' = grp + 1
    /\ task' = StartTasks(Len(task))
    /\ calls' = CountStarts(calls, grp', <<>>, task')
    /\ UNCHANGED <<evaluator, columns, phase, taskRes, taskLog, stats, written,
                   output, hung, metricVars, workflowVars>>

\* Promise.all resolves for the last group: its scores are stored, the
\* statistics are computed and the output file is written.
LastGroupDone ==
    /\ phase = "running" /\ AllSettled
    /\ grp = Len(Groups(evaluator))
    /\ fileScores' = StoreGroup(evaluator, fileScores, grp, taskRes[grp])
    /\ stats' = ComputeStats(evaluator, fileScores')
    /\ output' = Serialize(evaluator, columns, stats')
    /\ phase' = "done"
    /\ written' = TRUE
    /\ UNCHANGED <<evaluator, columns, grp, task, taskRes, taskLog, calls,
                   hung, metricVars, workflowVars>>

NextBatch ==
    \/ ReadCsv
    \/ ReadCsvFails
    \/ \E r \in 1..MaxRows : TaskFulfils(r)
    \/ \E r \in 1..MaxRows : TaskRejects(r)
    \/ GroupDone
    \/ LastGroupDone

SpecBatch == InitBatch /\ [][NextBatch]_vars

\* A run in which the model call of one task, if the run gets to it, never
\* returns: the await of the task stays pending, the task neither fulfils
\* nor rejects. (A position beyond the rows read is a run without a hang.)
HangPositions(e) ==
    {<<g, r>> : g \in DOMAIN Groups(e), r \in 1..MaxRows}

InitHang ==
    /\ BatchStart
    /\ hung \in HangPositions(evaluator)

SpecHang == InitHang /\ [][NextBatch]_vars

---------------------------------------------------------------------------
(* The aggregation and the output applied to one score table               *)

MaxColumns == 2   \* most columns of a score table handed to the aggregation

\* The collection of the population standard deviation example.
Textbook ==
    <<Num(200), Num(400), Num(400), Num(400), Num(500), Num(500), Num(700),
      Num(900)>>

\* Score collections: every short one over three values, and the example.
ScoreLists ==
    SeqUpTo({Num(0), Num(50), Num(100)}, MaxScores) \cup {Textbook}

\* Column names: CSV headers that are words and headers that are integers.
ColumnNames == {"A", "B", "1", "2"}

\* The column lists a table is declared with: lists of distinct names for the
\* columns parameter of rokujou's evaluateFile and the targetColumns of
\* sample, the one column 'reply' for reply-eval.
ColumnLists(e) ==
    IF e = "reply-eval" THEN {<<"reply">>}
    ELSE {cols \in SeqUpTo(ColumnNames, MaxColumns) :
            /\ Len(cols) >= 1
            /\ \A i, j \in DOMAIN cols : i # j => cols[i] # cols[j]}

InitStats ==
    /\ evaluator \in {"reply-eval", "rokujou", "sample"}
    /\ columns \in ColumnLists(evaluator)
    /\ phase = "collected"
    /\ grp = 0
    /\ task = <<>>
    /\ taskRes = <<>>
    /\ taskLog = <<>>
    /\ \E scores \in ScoreLists :
          fileScores = [k \in DOMAIN Cells(columns) |-> scores]
    /\ stats = <<>>
    /\ written = FALSE
    /\ output = <<>>
    /\ calls = <<>>
    /\ hung = NoHang
    /\ MetricIdle
    /\ WorkflowIdle

\* The statistics loop of evaluateFile over the table and the writing of the
\* output file.
Aggregate ==
    /\ phase = "collected"
    /\ stats' = ComputeStats(evaluator, fileScores)
    /\ output' = Serialize(evaluator, columns, stats')
    /\ written' = TRUE
    /\ phase' = "done"
    /\ UNCHANGED <<evaluator, columns, grp, task, taskRes, taskLog, fileScores,
                   calls, hung, metricVars, workflowVars>>

NextStats == Aggregate

SpecStats == InitStats /\ [][NextStats]_vars

---------------------------------------------------------------------------
(* Properties of the batch evaluators                                      *)

\* The metric invocation of row r of group g threw.
MetricThrew(g, r) ==
    \/ taskRes[g][r] = Rejected
    \/ taskRes[g][r] = Fulfilled(Null)

\* The group g has been stored into fileScores.
Stored(g) == g < grp \/ phase = "done"

\* The scores of the rows of group g whose metric invocation returned, in row
\* order.
ReturnedScores(g) ==
    LET kept == SelectSeq([r \in DOMAIN taskRes[g] |-> taskRes[g][r]],
                          LAMBDA x : x.k = "fulfilled" /\ x.v.t # "null")
    IN  [i \in DOMAIN kept |-> kept[i].v]

\* C10: when the metric invocation for one row throws, the error is caught,
\* the row contributes no score to its (column, guideline) collection, the
\* scores of the other rows are kept, and the run continues with the
\* remaining rows and groups.
C10_RowFailureIsExcluded ==
    /\ \A g \in DOMAIN taskRes : \A r \in DOMAIN taskRes[g] :
          MetricThrew(g, r) => taskRes[g][r] = Fulfilled(Null) /\ phase # "exited"
    /\ evaluator # "sample" =>
          \A g \in DOMAIN fileScores :
              Stored(g) => fileScores[g] = ReturnedScores(g)

\* C11: provided the input file is readable and every model call returns or
\* fails, a batch run finishes and writes its output table whatever subset of
\* the model calls fail; no model-call failure is re-raised to the caller: once
\* the rows are read the run is never ended without its table, and a finished
\* run has written one output cell per (column, guideline).
C11_ReadableRunWritesItsTable ==
    /\ grp >= 1 => phase \in {"running", "done"}
    /\ phase = "done" => written /\ Len(output) = Len(Cells(columns))

\* C12: aggregation over a (column, guideline) collection with zero
\* contributing scores (zero rows, or every row excluded) yields average NaN
\* and stddev NaN, never 0, in every batch evaluator.
C12_EmptyCollectionGivesNaN ==
    phase = "done" =>
        \A k \in DOMAIN fileScores :
            fileScores[k] = <<>> =>
                /\ stats[k] = [average |-> NaN, stddev |-> NaN]
                /\ \A j \in DOMAIN output :
                      (/\ output[j].col = Cells(columns)[k].col
                       /\ output[j].title = Cells(columns)[k].title)
                          => /\ output[j].average = Str("NaN")
                             /\ output[j].stddev = Str("NaN")

C12_Witness ==
    /\ evaluator = "rokujou" /\ phase = "done"
    /\ Len(taskRes[1]) >= 2
    /\ \A r \in DOMAIN taskRes[1] : taskRes[1][r] = Fulfilled(Null)
    /\ fileScores[1] = <<>>
    /\ stats[1].average = NaN /\ stats[1].stddev = NaN
    /\ fileScores[2] # <<>>

\* The number of model calls in flight: the tasks the limiter has started and
\* that have not settled.
InFlight == {r \in DOMAIN task : task[r] = "running"}

\* C15: at every moment of a batch run the number of model calls in flight is
\* at most the admission cap, for any number of rows and any completion order.
C15_InFlightAtMostCap == Cardinality(InFlight) <= Concurrency

C15_Witness ==
    /\ phase = "running"
    /\ Len(task) > Concurrency
    /\ Cardinality(InFlight) = Concurrency
    /\ \E r \in DOMAIN task : task[r] = "settled"
    /\ task[Len(task)] = "running"

\* The titles of the cells a settled task pushed into.
PushedTitles(g, r) ==
    {taskLog[g][r].pushes[i].title : i \in DOMAIN taskLog[g][r].pushes}

\* C16 as stated: each (column, guideline) cell is written by a single task
\* only: no two tasks that are in flight at the same time write the same cell.
C16_NoTwoInFlightTasksWriteSameCell ==
    \A g \in DOMAIN taskLog : \A r1, r2 \in DOMAIN taskLog[g] :
        (r1 # r2 /\ r2 \in taskLog[g][r1].with) =>
            PushedTitles(g, r1) \cap PushedTitles(g, r2) = {}

\* The pushes the tasks of group g made into the cell of the given title.
PushesInto(g, title) ==
    UNION {{<<r, i>> : i \in {j \in DOMAIN taskLog[g][r].pushes :
                                taskLog[g][r].pushes[j].title = title}} :
           r \in DOMAIN taskLog[g]}

\* C16 amended: in reply-eval and rokujou no task writes the score table; a
\* cell is assigned by evaluateFile alone, once every task of its group has
\* settled. In sample every task of a column appends to the cells of that
\* column when its call completes, tasks in flight together included, and a
\* cell holds exactly the scores those tasks pushed.
C16_CellWriters ==
    /\ evaluator \in {"reply-eval", "rokujou"} =>
          /\ \A g \in DOMAIN taskLog : \A r \in DOMAIN taskLog[g] :
                taskLog[g][r].pushes = <<>>
          /\ \A k \in DOMAIN fileScores : fileScores[k] # <<>> => Stored(k)
    /\ (evaluator = "sample" /\ phase \in {"running", "done"}) =>
          \A k \in DOMAIN fileScores :
              LET g == CHOOSE h \in DOMAIN columns :
                           columns[h] = Cells(columns)[k].col
              IN  Len(fileScores[k]) =
                      Cardinality(PushesInto(g, Cells(columns)[k].title))

C16_Witness ==
    /\ evaluator = "sample" /\ phase = "running"
    /\ \E r1, r2 \in DOMAIN taskLog[1] :
          /\ r1 # r2 /\ r2 \in taskLog[1][r1].with
          /\ "G1" \in PushedTitles(1, r1) \cap PushedTitles(1, r2)
    /\ Len(fileScores[1]) >= 2

\* The model call of row r of group g, as the task log records it.
CallOf(g, r) ==
    IF taskLog[g][r].raised THEN [raises |-> TRUE, message |-> "timeout"]
    ELSE IF evaluator = "sample" THEN RowResponseAll(r) ELSE RowResponse(r)

\* The task of row r of group g contributed the score of a result.
Scored(g, r) == taskRes[g][r].k = "fulfilled" /\ taskRes[g][r].v.t = "num"

\* That result was the fallback of InstructionComplianceMetric.measure: its
\* info carries the error diagnostic.
IsFallback(g, r) == "error" \in DOMAIN Measure(CallOf(g, r)).v.info

\* The reasons measureAll gives to the entries it synthesizes.
SubstituteReasons ==
    {Arr(<<Str(d)>>) : d \in {"LLM call failed: timeout",
                              "LLM call failed: Unknown error",
                              "LLM returned empty response",
                              "Failed to parse LLM response",
                              "Parsed response had empty results",
                              "This guideline was missing from LLM response"}}

\* The titles whose entry in the result of measureAll is a substitute.
SubstituteTitles(c) ==
    LET results == MeasureAll(BatchGuidelines, c).v.info.results.a
    IN  {Get(results[i], "title").s :
            i \in {j \in DOMAIN results :
                      Get(results[j], "reasons") \in SubstituteReasons}}

\* C17: a failure-substitute score is recognisable as such, and the
\* distinction from a model judgement is still available in the batch
\* evaluators' score collections: a substitute and a judgement contributed to
\* the same cell never look the same there.
C17_SubstituteStaysRecognisable ==
    /\ evaluator \in {"reply-eval", "rokujou"} =>
          \A g \in DOMAIN taskRes : \A r1, r2 \in DOMAIN taskRes[g] :
              (/\ Scored(g, r1) /\ IsFallback(g, r1)
               /\ Scored(g, r2) /\ ~IsFallback(g, r2))
                  => taskRes[g][r1].v # taskRes[g][r2].v
    /\ evaluator = "sample" =>
          \A g \in DOMAIN taskLog : \A r1, r2 \in DOMAIN taskLog[g] :
              \A i \in DOMAIN taskLog[g][r1].pushes :
              \A j \in DOMAIN taskLog[g][r2].pushes :
                  LET p1 == taskLog[g][r1].pushes[i]
                      p2 == taskLog[g][r2].pushes[j]
                  IN  (/\ p1.title = p2.title
                       /\ p1.title \in SubstituteTitles(CallOf(g, r1))
                       /\ p2.title \notin SubstituteTitles(CallOf(g, r2)))
                          => p1.score # p2.score

\* C18: if the input CSV file is absent or cannot be read, the run fails at
\* that point: while no rows have been obtained the run is either still
\* reading or has ended, no model call has been made and no output table or
\* file has been written.
C18_UnreadableInputHaltsRun ==
    grp = 0 =>
        /\ phase \in {"start", "exited"}
        /\ task = <<>> /\ taskRes = <<>>
        /\ fileScores = <<>> /\ stats = <<>>
        /\ ~written /\ output = <<>>

C18_Witness ==
    /\ phase = "exited" /\ grp = 0
    /\ task = <<>> /\ ~written /\ output = <<>>

---------------------------------------------------------------------------
(* Properties of the aggregation and the output                            *)

\* C13: for a non-empty score collection average = sum/count and
\* stddev = sqrt(sum of (s - average)^2 / count), dividing by count and not
\* count - 1, to the precision of the model's numbers (hundredths, rounded
\* down); for scores [2,4,4,4,5,5,7,9] the average is 5 and the stddev is 2.
C13_PopulationStatistics ==
    phase = "done" =>
        \A k \in DOMAIN fileScores :
            fileScores[k] # <<>> =>
                LET n == Len(fileScores[k])
                    avg == stats[k].average
                    sd == stats[k].stddev
                IN  /\ avg.t = "num" /\ sd.t = "num"
                    /\ avg.n * n <= Sum(fileScores[k])
                    /\ Sum(fileScores[k]) < (avg.n + 1) * n
                    /\ sd.n * sd.n * n <= SumSq(fileScores[k], avg.n)
                    /\ SumSq(fileScores[k], avg.n) \div n < (sd.n + 1) * (sd.n + 1)
                    /\ fileScores[k] = Textbook => avg = Num(500) /\ sd = Num(200)

C13_Witness ==
    /\ evaluator = "sample" /\ phase = "done"
    /\ fileScores[1] = Textbook
    /\ stats[1] = [average |-> Num(500), stddev |-> Num(200)]

---------------------------------------------------------------------------
(* The processReviews step of the style-guide workflow                     *)

BatchSize == 25    \* reviews per extraction call
MaxReviews == 51   \* most reviews parseReviews hands over

Min(a, b) == IF a < b THEN a ELSE b

\* Array.prototype.slice(from, to) for 0 <= from <= to, zero-based and
\* exclusive of to, clamped to the array's length.
Slice(s, from, to) == SubSeq(s, from + 1, Min(to, Len(s)))

\* The object the extraction agent answers a batch with.
Extraction(batch) == [of |-> batch]

InitWorkflow ==
    /\ \E n \in 0..MaxReviews : reviews = [i \in 1..n |-> i]
    /\ cursor = 0
    /\ aggregated = <<>>
    /\ sent = <<>>
    /\ evaluator = "none"
    /\ phase = "process"
    /\ grp = 0
    /\ task = <<>>
    /\ taskRes = <<>>
    /\ fileScores = <<>>
    /\ written = FALSE
    /\ columns = <<>>
    /\ taskLog = <<>>
    /\ stats = <<>>
    /\ output = <<>>
    /\ calls = <<>>
    /\ hung = NoHang
    /\ MetricIdle

\* One iteration of the loop whose extraction call resolves: the response's
\* object is pushed.
BatchSucceeds ==
    /\ phase = "process"
    /\ cursor < Len(reviews)
    /\ LET batch == Slice(reviews, cursor, cursor + BatchSize)
       IN  /\ aggregated' = Append(aggregated, Extraction(batch))
           /\ sent' = Append(sent, [batch |-> batch, ok |-> TRUE])
    /\ cursor' = cursor + BatchSize
    /\ UNCHANGED <<reviews, batchVars, metricVars>>

\* Mutant of BatchFails: the error of the extraction call is not caught and
\* ends the step.
BatchFails_Stops ==
    /\ phase = "process"
    /\ cursor < Len(reviews)
    /\ LET batch == Slice(reviews, cursor, cursor + BatchSize)
       IN  sent' = Append(sent, [batch |-> batch, ok |-> FALSE])
    /\ phase' = "returned"
    /\ UNCHANGED <<reviews, cursor, aggregated, evaluator, columns, grp, task,
                   taskRes, taskLog, fileScores, stats, written, output, calls,
                   hung, metricVars>>

\* One iteration of the loop whose extraction call rejects: the catch logs
\* the error and the loop goes on.
BatchFails ==
    /\ phase = "process"
    /\ cursor < Len(reviews)
    /\ LET batch == Slice(reviews, cursor, cursor + BatchSize)
       IN  sent' = Append(sent, [batch |-> batch, ok |-> FALSE])
    /\ cursor' = cursor + BatchSize
    /\ UNCHANGED <<reviews, aggregated, batchVars, metricVars>>

\* The loop condition fails and the step returns { aggregated }.
ProcessReturns ==
    /\ phase = "process"
    /\ cursor >= Len(reviews)
    /\ phase' = "returned"
    /\ UNCHANGED <<reviews, cursor, aggregated, sent, evaluator, columns, grp,
                   task, taskRes, taskLog, fileScores, stats, written, output,
                   calls, hung, metricVars>>

NextWorkflow ==
    \/ BatchSucceeds
    \/ BatchFails
    \/ ProcessReturns

SpecWorkflow == InitWorkflow /\ [][NextWorkflow]_vars

---------------------------------------------------------------------------
(* Properties of processReviews                                            *)

RECURSIVE Concat(_)
Concat(ss) == IF ss = <<>> THEN <<>> ELSE Head(ss) \o Concat(Tail(ss))

CeilDiv(n, d) == (n + d - 1) \div d

Succeeded(e) == e.ok

\* C30: processReviews cuts the reviews into consecutive batches of at most
\* 25 in input order, every review in exactly one batch, and makes one
\* extraction call per batch, ceil(n/25) calls by the time it returns; a
\* batch whose call fails adds nothing to the aggregate and does not stop
\* the later batches, so the aggregate holds one entry per successful batch,
\* in batch order.
C30_BatchesOf25InOrder ==
    phase \in {"process", "returned"} =>
        /\ \A k \in DOMAIN sent :
              /\ Len(sent[k].batch) >= 1
              /\ Len(sent[k].batch) <= BatchSize
              /\ sent[k].batch =
                    SubSeq(reviews, BatchSize * (k - 1) + 1,
                           Min(BatchSize * k, Len(reviews)))
        /\ Concat([k \in DOMAIN sent |-> sent[k].batch]) =
              SubSeq(reviews, 1, Min(cursor, Len(reviews)))
        /\ LET good == SelectSeq(sent, Succeeded)
           IN  aggregated = [j \in DOMAIN good |-> Extraction(good[j].batch)]
        /\ phase = "returned" =>
              /\ Len(sent) = CeilDiv(Len(reviews), BatchSize)
              /\ Concat([k \in DOMAIN sent |-> sent[k].batch]) = reviews

C30_Witness ==
    /\ phase = "returned"
    /\ Len(reviews) = 2 * BatchSize + 1
    /\ Len(sent) = 3
    /\ sent[1].ok /\ ~sent[2].ok /\ sent[3].ok
    /\ Len(aggregated) = 2
    /\ aggregated[2] = Extraction(<<2 * BatchSize + 1>>)


---------------------------------------------------------------------------
(* Properties of the scheduling of the batch evaluators                    *)

\* The run has left evaluateFile after it obtained the rows.
RunEnded == grp >= 1 /\ phase \in {"done", "exited"}

\* C24: a batch run invokes the metric, and with it the model, exactly once
\* per task (per row, column and guideline in the single-instruction
\* evaluators, per row and column in the multi-guideline one): no task
\* begins a second call, a settled task has made its one call, and when the
\* run has ended no task was skipped, a failure of another task included.
C24_ExactlyOneCallPerTask ==
    \A g \in DOMAIN calls : \A r \in DOMAIN calls[g] :
        /\ calls[g][r] <= 1
        /\ taskRes[g][r] # Pending => calls[g][r] = 1
        /\ RunEnded => calls[g][r] = 1

\* C26: within one group the tasks begin their model call in submission
\* (row) order: a task has not begun while an earlier-submitted task of its
\* group has not.
C26_BeginInSubmissionOrder ==
    \A g \in DOMAIN calls : \A r1, r2 \in DOMAIN calls[g] :
        (r1 < r2 /\ calls[g][r2] > 0) => calls[g][r1] > 0

\* The tasks complete in another order than they began: row 2 has settled
\* and the queued row 3 has begun while row 1 is still in flight.
C26_Witness ==
    /\ phase = "running" /\ Len(task) = 3
    /\ task[1] = "running" /\ task[2] = "settled" /\ task[3] = "running"
    /\ calls[grp][3] = 1

\* The call of row r of group g has begun and has not settled.
CallInFlight(g, r) == calls[g][r] > 0 /\ taskRes[g][r] = Pending

\* C27: the groups are processed strictly one after another: no call of a
\* later group has begun before every call of the groups before it has
\* settled, and calls of two groups are never in flight together: a call in
\* flight is a call of the one group under way.
C27_GroupsOneAfterAnother ==
    /\ \A g \in DOMAIN calls : \A r \in DOMAIN calls[g] :
          /\ g > grp => calls[g][r] = 0 /\ taskRes[g][r] = Pending
          /\ (g < grp /\ phase # "exited") => taskRes[g][r] # Pending
    /\ \A g \in DOMAIN calls : \A r \in DOMAIN calls[g] :
          CallInFlight(g, r) => g = grp

\* A later group is under way: calls of it are in flight and every call of
\* the group before it has settled.
C27_Witness ==
    /\ phase = "running" /\ grp = 2
    /\ Cardinality({r \in DOMAIN task : CallInFlight(2, r)}) = Concurrency
    /\ \A r \in DOMAIN task : calls[1][r] = 1 /\ taskRes[1][r] # Pending

---------------------------------------------------------------------------
(* Properties of the multi-guideline batch evaluator                       *)

\* The results measureAll handed to the task of row r of group g.
ResultsOf(g, r) == MeasureAll(BatchGuidelines, CallOf(g, r)).v.info.results.a

\* The positions of the pushes of that task into the cell of a title.
PushesOf(g, r, title) ==
    {i \in DOMAIN taskLog[g][r].pushes : taskLog[g][r].pushes[i].title = title}

\* C28: in the multi-guideline evaluator each cell's collection holds at
\* most one score per row, so its size never exceeds the number of rows,
\* whatever the model answered, and every collected score is the score of a
\* result of the row divided by 10.
C28_AtMostOneScorePerRow ==
    (evaluator = "sample" /\ phase \in {"running", "done"}) =>
        /\ \A g \in DOMAIN taskLog : \A r \in DOMAIN taskLog[g] :
              /\ \A t \in BatchTitles : Cardinality(PushesOf(g, r, t.s)) <= 1
              /\ \A i \in DOMAIN taskLog[g][r].pushes :
                    \E j \in DOMAIN ResultsOf(g, r) :
                        /\ Get(ResultsOf(g, r)[j], "title") =
                              Str(taskLog[g][r].pushes[i].title)
                        /\ IsNumber(Get(ResultsOf(g, r)[j], "score"))
                        /\ Div10(Get(ResultsOf(g, r)[j], "score")) =
                              taskLog[g][r].pushes[i].score
        /\ \A k \in DOMAIN fileScores : Len(fileScores[k]) <= Len(task)

\* A result the forEach of the task is to push: its title is declared and
\* its score is a number.
Pushable(x) ==
    Get(x, "title") \in BatchTitles /\ IsNumber(Get(x, "score"))

\* C29: in the multi-guideline evaluator a result whose title is not a
\* declared guideline title, or whose score is not a number, is dropped
\* without a push and without aborting the remaining results of the row: a
\* completed task has pushed exactly the other results of its row, in order.
C29_InvalidResultIsDropped ==
    (evaluator = "sample" /\ phase \in {"running", "done"}) =>
        \A g \in DOMAIN taskLog : \A r \in DOMAIN taskLog[g] :
            taskRes[g][r] # Pending =>
                LET kept == SelectSeq(ResultsOf(g, r), Pushable)
                IN  taskLog[g][r].pushes =
                        [i \in DOMAIN kept |->
                            [title |-> Get(kept[i], "title").s,
                             score |-> Div10(Get(kept[i], "score"))]]


\* The scores the rows contributed to the cell k, taken in row order
\* whatever the order the calls completed in: what each task pushed
\* (sample), what each task returned (reply-eval, rokujou).
RowOrdered(k) ==
    LET cell == Cells(columns)[k]
        rows == 1..Len(task)
    IN  IF evaluator = "sample"
        THEN LET g == CHOOSE h \in DOMAIN columns : columns[h] = cell.col
                 of(r) == SelectSeq(taskLog[g][r].pushes,
                                    LAMBDA p : p.title = cell.title)
             IN  Concat([r \in rows |->
                            [i \in DOMAIN of(r) |-> of(r)[i].score]])
        ELSE Collect(evaluator, taskRes[k])

---------------------------------------------------------------------------
(* Properties of a run with a model call that never returns                *)

\* The run can take no further step while evaluateFile is still awaiting a
\* group: all that is left is the call that never returns.
Stalled ==
    /\ phase = "running"
    /\ hung[1] = grp /\ hung[2] \in DOMAIN task
    /\ ~ENABLED NextBatch

\* C23: if one model call never returns while every other call returns or
\* fails, every other scoring task of the run, in the same group and in
\* every later group, is still admitted and completes: when nothing but the
\* call that never returns is left, every other task has settled.
C23_HungCallStallsOnlyItsSlot ==
    Stalled =>
        \A g \in DOMAIN taskRes : \A r \in DOMAIN taskRes[g] :
            <<g, r>> # hung => (calls[g][r] = 1 /\ taskRes[g][r] # Pending)

====
